---- MODULE Spec2Model ----
(***************************************************************************)
(* book-catalog: the metadata enrichment run of scripts/enrich.py over the *)
(* catalog store of scripts/models.py.                                     *)
(*                                                                         *)
(* Python values.  An Optional value is a sequence of length 0 (None) or 1 *)
(* (the value).  A dict is a function from its keys; a key that is absent  *)
(* is outside its DOMAIN.  A JSON value that may be a string or an object  *)
(* carries a type tag.  A URL is a triple <<address, zoom, edge>> so that  *)
(* formatting and substring replacement are computed, not assumed.         *)
(***************************************************************************)
EXTENDS Integers, Sequences, FiniteSets, TLC

VARIABLES
    store,          \* the books table: id -> row
    args,           \* parsed command line of enrich.py: book_id, force, dry_run
    pc,             \* position of the process in main / enrich_book
    books,          \* main: the list of Book objects being enriched
    idx,            \* main: index in books of the book being enriched (0: none yet)
    enriched,       \* main: the counter `enriched`
    needs,          \* enrich_book: needs_cover, needs_summary, needs_page_count, needs_publisher
    ol_data,        \* enrich_book: the Primary (OpenLibrary) record
    ol_works_data,  \* enrich_book: the Primary work-details record
    google_data,    \* enrich_book: the Secondary (Google Books) record
    updated,        \* enrich_book: the flag `updated`
    calls,          \* adapter calls of the current enrich_book pass, in order
    exchange,       \* how the adapter call of the step just taken went, if it made one
    clock,          \* seconds slept so far in this process (time.sleep)
    writes,         \* BookDB.update calls that committed during the current pass
    pre,            \* the Book as it was when the current pass started
    returned,       \* what the last finished enrich_book call returned
    output,         \* what main printed last: the kind of final line and its numbers
    error,          \* the exception that ended the process, if any
    world,          \* the answers the network has given so far: id -> endpoint -> answer
    run,            \* how many times enrich.py has been started
    ran,            \* how each earlier run of enrich.py ended: "done", "crashed", "stopped"
    call_times,     \* the clock at the start of each adapter call of this run, in order
    passes,         \* the enrich_book calls of this run, in order: book id and what it returned
    store0          \* the books table as each run of enrich.py found it, in order

vars == <<store, args, pc, books, idx, enriched, needs, ol_data, ol_works_data,
          google_data, updated, calls, exchange, clock, writes, pre, returned, output,
          error, world, run, ran, call_times, passes, store0>>

----------------------------------------------------------------------------
(* Bounds of the model *)

\* most rows in the books table in the batch specification
MaxBooks == 2
\* most times enrich.py is started in one behaviour
MaxRuns == 2
\* most rows in the books table when dedupe.py runs
MaxCopies == 3
\* most books added with `cli.py add` in one behaviour
MaxAdds == 3

----------------------------------------------------------------------------
(* Python values *)

None == <<>>
Some(v) == <<v>>
IsNone(o) == Len(o) = 0

\* bool(x) of an Optional[str] / Optional[int] / Optional[dict] / list
TruthyStr(o) == Len(o) = 1 /\ o[1] # ""
TruthyInt(o) == Len(o) = 1 /\ o[1] # 0
TruthyDict(o) == Len(o) = 1 /\ DOMAIN o[1] # {}

\* dict.get(k): None when the key is absent
Get(d, k) == IF k \in DOMAIN d THEN Some(d[k]) ELSE None

\* a JSON value that is a string, and one that is an object
JStr(s) == [t |-> "str", s |-> s, d |-> <<>>]
JObj(d) == [t |-> "dict", s |-> "", d |-> d]

\* the outcome of a Python call: a returned value or a raised exception class
Returns(v) == [raised |-> None, value |-> v]
Raises(e) == [raised |-> Some(e), value |-> None]

----------------------------------------------------------------------------
(* The network: what one HTTP exchange of requests.get can come to.  exc is *)
(* the exception requests.get raises, if any; otherwise status is the      *)
(* response's status code and body its JSON body, None when the body does  *)
(* not parse (response.json() raises).                                     *)

Exchange(e, s, b) == [exc |-> e, status |-> s, body |-> b]
Ok(b) == Exchange(None, 200, Some(b))
NotFound == Exchange(None, 404, None)
Failures ==
    { Exchange(Some("ConnectionError"), 0, None),
      Exchange(Some("Timeout"), 0, None),
      Exchange(None, 500, None),
      Exchange(None, 200, None) }

\* requests.get(url, timeout=10): the response, or the exception raised
requests_get(o) == IF IsNone(o.exc) THEN Returns(Some(o)) ELSE Raises(o.exc[1])

\* response.json(): the parsed body, or requests' JSONDecodeError
response_json(o) == IF IsNone(o.body) THEN Raises("JSONDecodeError") ELSE Returns(o.body)

\* the classes `except requests.RequestException` catches, among those raised here
RequestException == {"RequestException", "ConnectionError", "Timeout", "JSONDecodeError"}

\* a handler that catches connection errors only (`except requests.ConnectionError`)
ExceptConnectionError(r) ==
    IF ~IsNone(r.raised) /\ r.raised[1] \in {"ConnectionError"} THEN Returns(None) ELSE r

\* try: ... except requests.RequestException: print(...); return None
ExceptRequestException(r) ==
    IF ~IsNone(r.raised) /\ r.raised[1] \in RequestException THEN Returns(None) ELSE r

\* a statement sequence: the second part runs only if the first did not raise
Then(r, Rest(_)) == IF IsNone(r.raised) THEN Rest(r.value) ELSE r

fetch_openlibrary_by_isbn(o) ==
    ExceptRequestException(
        Then(requests_get(o), LAMBDA resp:
            IF resp[1].status = 200 THEN response_json(resp[1])
            ELSE IF resp[1].status = 404 THEN Returns(None)
            ELSE Returns(None)))

fetch_openlibrary_by_title_author(o) ==
    ExceptRequestException(
        Then(requests_get(o), LAMBDA resp:
            IF resp[1].status = 200
            THEN Then(response_json(resp[1]), LAMBDA data:
                    IF "docs" \in DOMAIN data[1] /\ data[1].docs # <<>>
                    THEN Returns(Some(data[1].docs[1]))
                    ELSE Returns(None))
            ELSE Returns(None)))

fetch_openlibrary_works(o) ==
    ExceptRequestException(
        Then(requests_get(o), LAMBDA resp:
            IF resp[1].status = 200 THEN response_json(resp[1]) ELSE Returns(None)))

\* a query that prefers the title to the ISBN
GoogleQueryTitleFirst(isbn, title, author) ==
    IF title # "" /\ TruthyStr(author) THEN <<"intitle:", title, "inauthor:", author[1]>>
    ELSE IF title # "" THEN <<"intitle:", title>>
    ELSE IF TruthyStr(isbn) THEN <<"isbn:", isbn[1]>>
    ELSE <<>>

\* the query fetch_google_books builds from its arguments; <<>> when it builds none
GoogleQuery(isbn, title, author) ==
    IF TruthyStr(isbn) THEN <<"isbn:", isbn[1]>>
    ELSE IF title # "" /\ TruthyStr(author) THEN <<"intitle:", title, "inauthor:", author[1]>>
    ELSE IF title # "" THEN <<"intitle:", title>>
    ELSE <<>>

\* o is the exchange of the request, used only when a query was built
fetch_google_books(isbn, title, author, o) ==
    ExceptRequestException(
        IF GoogleQuery(isbn, title, author) = <<>> THEN Returns(None)
        ELSE Then(requests_get(o), LAMBDA resp:
            IF resp[1].status = 200
            THEN Then(response_json(resp[1]), LAMBDA data:
                    IF "items" \in DOMAIN data[1] /\ data[1].items # <<>>
                    THEN IF "volumeInfo" \in DOMAIN data[1].items[1]
                         THEN Returns(Some(data[1].items[1].volumeInfo))
                         ELSE Returns(Some(<<>>))
                    ELSE Returns(None))
            ELSE Returns(None)))

----------------------------------------------------------------------------
(* Extraction from the provider records *)

\* a URL is <<address, zoom, edge>>; bool(url) of an Optional URL
TruthyUrl(o) == Len(o) = 1 /\ o[1] # <<"", "", "">>

\* OPENLIBRARY_COVER_URL.format(cover_id=...)
OPENLIBRARY_COVER_URL(cover_id) == <<"https://covers.openlibrary.org/b/id/", cover_id, "-L.jpg">>

\* url.replace("&edge=curl", "") and then .replace("zoom=1", "zoom=2")
GoogleCoverFix(url) ==
    <<url[1], IF url[2] = "zoom=1" THEN "zoom=2" ELSE url[2],
      IF url[3] = "&edge=curl" THEN "" ELSE url[3]>>

\* an extraction that takes a description only when it is a plain string
extract_description_str(data, source) ==
    IF source = "openlibrary"
    THEN IF "description" \in DOMAIN data /\ data.description.t = "str"
         THEN Some(data.description.s)
         ELSE None
    ELSE IF source = "google" THEN Get(data, "description")
    ELSE None

extract_description(data, source) ==
    IF source = "openlibrary"
    THEN IF "description" \in DOMAIN data
         THEN IF data.description.t = "dict" THEN Get(data.description.d, "value")
              ELSE IF data.description.t = "str" THEN Some(data.description.s)
              ELSE None
         ELSE None
    ELSE IF source = "google" THEN Get(data, "description")
    ELSE None

extract_cover_url(data, source) ==
    IF source = "openlibrary"
    THEN IF "covers" \in DOMAIN data /\ data.covers # <<>>
         THEN Some(OPENLIBRARY_COVER_URL(data.covers[1]))
         ELSE IF TruthyStr(Get(data, "cover_i"))
              THEN Some(OPENLIBRARY_COVER_URL(data.cover_i))
              ELSE None
    ELSE IF source = "google"
    THEN LET image_links == IF "imageLinks" \in DOMAIN data THEN data.imageLinks ELSE <<>>
         IN  IF "large" \in DOMAIN image_links THEN Some(GoogleCoverFix(image_links.large))
             ELSE IF "medium" \in DOMAIN image_links THEN Some(GoogleCoverFix(image_links.medium))
             ELSE IF "thumbnail" \in DOMAIN image_links THEN Some(GoogleCoverFix(image_links.thumbnail))
             ELSE None
    ELSE None

----------------------------------------------------------------------------
(* enrich_book: what it decides from the Book and the records it holds *)

\* an identifier that prefers the 10-digit ISBN (`book.isbn or book.isbn13`)
ResolveIsbn10First(book) == IF TruthyStr(book.isbn) THEN book.isbn ELSE book.isbn13

\* isbn = book.isbn13 or book.isbn
ResolveIsbn(book) == IF TruthyStr(book.isbn13) THEN book.isbn13 ELSE book.isbn

\* needs that do not look at the Book: every field is always to be fetched
NeedsAlways(book, force) ==
    [cover |-> TRUE, summary |-> TRUE, page_count |-> TRUE, publisher |-> TRUE]

\* needs_cover, needs_summary, needs_page_count, needs_publisher
Needs(book, force) ==
    [cover      |-> force \/ ~TruthyUrl(book.cover_url),
     summary    |-> force \/ ~TruthyStr(book.summary),
     page_count |-> force \/ ~TruthyInt(book.page_count),
     publisher  |-> force \/ ~TruthyStr(book.publisher)]

\* a pass that never stops at "Already complete, skipping"
AnyNeedAlways(n) == TRUE

\* if not any([needs_cover, needs_summary, needs_page_count, needs_publisher]) is false
AnyNeed(n) == n.cover \/ n.summary \/ n.page_count \/ n.publisher

\* works_key: from the direct-lookup shape, else from the search shape
WorksKey(ol) ==
    IF "works" \in DOMAIN ol /\ ol.works # <<>> THEN Get(ol.works[1], "key")
    ELSE IF "key" \in DOMAIN ol THEN Get(ol, "key")
    ELSE None

\* a cover block that asks the Secondary record only when there is no Primary record
CoverOfOneRecord(ol, g) ==
    IF TruthyDict(ol) THEN extract_cover_url(ol[1], "openlibrary")
    ELSE IF TruthyDict(g) THEN extract_cover_url(g[1], "google")
    ELSE None

\* the local `cover` of the cover block
CoverFound(ol, g) ==
    LET c == IF TruthyDict(ol) THEN extract_cover_url(ol[1], "openlibrary") ELSE None
    IN  IF ~TruthyUrl(c) /\ TruthyDict(g) THEN extract_cover_url(g[1], "google") ELSE c

\* a summary block that asks the Secondary record first
SummarySecondaryFirst(w, g) ==
    LET d == IF TruthyDict(g) THEN extract_description(g[1], "google") ELSE None
    IN  IF ~TruthyStr(d) /\ TruthyDict(w) THEN extract_description(w[1], "openlibrary") ELSE d

\* the local `summary` of the summary block
SummaryFound(w, g) ==
    LET d == IF TruthyDict(w) THEN extract_description(w[1], "openlibrary") ELSE None
    IN  IF ~TruthyStr(d) /\ TruthyDict(g) THEN extract_description(g[1], "google") ELSE d

\* a page count block that asks the Secondary record first
PageCountGoogleFirst(ol, g) ==
    IF TruthyDict(g) /\ TruthyInt(Get(g[1], "pageCount")) THEN Some(g[1].pageCount)
    ELSE IF TruthyDict(ol) /\ TruthyInt(Get(ol[1], "number_of_pages"))
    THEN Some(ol[1].number_of_pages)
    ELSE None

\* the local `page_count` of the page count block
PageCountFound(ol, g) ==
    IF TruthyDict(ol) /\ TruthyInt(Get(ol[1], "number_of_pages")) THEN Some(ol[1].number_of_pages)
    ELSE IF TruthyDict(g) /\ TruthyInt(Get(g[1], "pageCount")) THEN Some(g[1].pageCount)
    ELSE None

\* the local `publisher` of the publisher block
PublisherFound(ol, g) ==
    IF TruthyDict(ol)
    THEN LET publishers == IF "publishers" \in DOMAIN ol[1] THEN ol[1].publishers ELSE <<>>
         IN  IF publishers # <<>>
             THEN IF publishers[1].t = "str" THEN Some(publishers[1].s)
                  ELSE Get(publishers[1].d, "name")
             ELSE None
    ELSE IF TruthyDict(g) THEN Get(g[1], "publisher")
    ELSE None

\* a key block without the `not book.openlibrary_key` test
KeyAlways(book, ol) ==
    IF TruthyDict(ol) /\ TruthyStr(Get(ol[1], "key")) THEN Get(ol[1], "key") ELSE None

\* the key stored for future reference, None when the block assigns nothing
KeyFound(book, ol) ==
    IF TruthyDict(ol) /\ ~TruthyStr(book.openlibrary_key) /\ TruthyStr(Get(ol[1], "key"))
    THEN Get(ol[1], "key")
    ELSE None

\* blocks that assign what they found without testing it (no `if cover:`)
AppliedUntested(book, n, ol, w, g) ==
    [book EXCEPT
        !.cover_url = IF n.cover THEN CoverFound(ol, g) ELSE @,
        !.summary = IF n.summary THEN SummaryFound(w, g) ELSE @,
        !.page_count = IF n.page_count THEN PageCountFound(ol, g) ELSE @,
        !.publisher = IF n.publisher THEN PublisherFound(ol, g) ELSE @,
        !.openlibrary_key = IF TruthyStr(KeyFound(book, ol)) THEN KeyFound(book, ol) ELSE @]

\* the Book after the "Extract and apply data" blocks
Applied(book, n, ol, w, g) ==
    [book EXCEPT
        !.cover_url = IF n.cover /\ TruthyUrl(CoverFound(ol, g)) THEN CoverFound(ol, g) ELSE @,
        !.summary = IF n.summary /\ TruthyStr(SummaryFound(w, g)) THEN SummaryFound(w, g) ELSE @,
        !.page_count = IF n.page_count /\ TruthyInt(PageCountFound(ol, g))
                       THEN PageCountFound(ol, g) ELSE @,
        !.publisher = IF n.publisher /\ TruthyStr(PublisherFound(ol, g))
                      THEN PublisherFound(ol, g) ELSE @,
        !.openlibrary_key = IF TruthyStr(KeyFound(book, ol)) THEN KeyFound(book, ol) ELSE @]

\* a flag `updated` that is set by every block that ran, found or not
UpdatedWhenNeeded(book, n, ol, w, g) == AnyNeed(n)

\* a flag `updated` that is set whenever a provider gave a record
UpdatedOnRecord(book, n, ol, w, g) == TruthyDict(ol) \/ TruthyDict(w) \/ TruthyDict(g)

\* the flag `updated` after the same blocks
AppliedUpdated(book, n, ol, w, g) ==
    \/ n.cover /\ TruthyUrl(CoverFound(ol, g))
    \/ n.summary /\ TruthyStr(SummaryFound(w, g))
    \/ n.page_count /\ TruthyInt(PageCountFound(ol, g))
    \/ n.publisher /\ TruthyStr(PublisherFound(ol, g))
    \/ TruthyStr(KeyFound(book, ol))

----------------------------------------------------------------------------
(* The catalog store (models.py) *)

Row(id, isbn, isbn13, key, title, author, publisher, page_count, cover_url, summary) ==
    [id |-> id, isbn |-> isbn, isbn13 |-> isbn13, openlibrary_key |-> key,
     title |-> title, author |-> author, publisher |-> publisher,
     page_count |-> page_count, cover_url |-> cover_url, summary |-> summary]

\* BookDB.get(book_id)
BookDB_get(db, book_id) == IF book_id \in DOMAIN db THEN Some(db[book_id]) ELSE None

\* the ids BookDB.get_all() selects
BookDB_get_all(db) == DOMAIN db

\* the ids BookDB.get_needing_enrichment() selects (title is NOT NULL in the schema)
BookDB_get_needing_enrichment(db) ==
    { i \in DOMAIN db :
        /\ IsNone(db[i].cover_url) \/ IsNone(db[i].summary)
        /\ ~IsNone(db[i].isbn) \/ ~IsNone(db[i].isbn13) \/ ~IsNone(db[i].author) }

\* the lists a SELECT over the ids S can return: the ORDER BY columns (author,
\* title; created_at) are not part of the model, so every order is allowed
Listings(db, S) ==
    { l \in [1..Cardinality(S) -> S] : \A i, j \in 1..Cardinality(S) : i # j => l[i] # l[j] }

\* an update without conn.commit(): the connection closes and nothing is kept
BookDB_update_no_commit(db, book) ==
    IF book.id = 0 THEN Raises("ValueError") ELSE Returns(db)

\* an update that writes the cover and summary columns only
BookDB_update_columns(db, book) ==
    IF book.id = 0 THEN Raises("ValueError")
    ELSE Returns([i \in DOMAIN db |->
                    IF i = book.id
                    THEN [db[i] EXCEPT !.cover_url = book.cover_url, !.summary = book.summary]
                    ELSE db[i]])

\* BookDB.update(book): the exception it raises, or the table after the UPDATE
BookDB_update(db, book) ==
    IF book.id = 0 THEN Raises("ValueError")
    ELSE Returns([i \in DOMAIN db |-> IF i = book.id THEN book ELSE db[i]])

----------------------------------------------------------------------------
(* Inputs: the rows a catalog can hold and the answers the providers give *)

OldCover == <<"https://example.org/old-cover.jpg", "", "">>

\* <<isbn, isbn13, title, author>>; the title "" is the default of the Book
\* dataclass, which BookDB.add stores as it is
Identities ==
    { <<None, Some("9780306406157"), "T", Some("A")>>,
      <<Some("0306406152"), None, "T", None>>,
      <<Some("0306406152"), Some("9780306406157"), "", None>>,
      <<None, None, "T", Some("A")>>,
      <<None, None, "T", None>>,
      <<None, None, "", None>> }

\* page_count 0 is what import_csv stores for a "Number of Pages" cell of 0
Rows(id) ==
    { Row(id, n[1], n[2], k, n[3], n[4], b, p, c, s) :
        n \in Identities,
        k \in {None, Some("/books/OL9M")},
        b \in {None, Some("Old Pub")},
        p \in {None, Some(0), Some(100)},
        c \in {None, Some(OldCover)},
        s \in {None, Some("old summary")} }

\* the rows of the batch specification: one with nothing enriched, one half
\* enriched and found by title, one complete
BatchRows(id) ==
    { Row(id, None, Some("9780306406157"), None, "T", None, None, None, None, None),
      Row(id, None, None, None, "T", Some("A"), None, Some(0), Some(OldCover), None),
      Row(id, Some("0306406152"), None, Some("/books/OL9M"), "T", Some("A"),
          Some("Old Pub"), Some(100), Some(OldCover), Some("old summary")) }

Field(k, v, present) == IF present THEN (k :> v) ELSE <<>>

\* an edition record of the ISBN API (direct-lookup shape); pub is "none", "str" or "dict"
Edition(key, works, covers, pages, pub) ==
    [title |-> "T"]
    @@ Field("key", "/books/OL1M", key)
    @@ Field("works", <<[key |-> "/works/OL1W"]>>, works)
    @@ Field("covers", <<"42">>, covers)
    @@ Field("number_of_pages", 320, pages)
    @@ Field("publishers", <<JStr("OL Pub")>>, pub = "str")
    @@ Field("publishers", <<JObj([name |-> "OL Pub"])>>, pub = "dict")

\* an edition record that carries a description of its own, and no works list
EditionWithDescription ==
    Edition(TRUE, FALSE, TRUE, FALSE, "none") @@ [description |-> JObj([value |-> "X"])]

\* an edition record whose works list names a work without its key
EditionWithKeylessWork ==
    [title |-> "T", key |-> "/books/OL1M", works |-> <<[type |-> "/type/work"]>>]

Editions ==
    { Edition(TRUE, TRUE, TRUE, TRUE, "str"),
      Edition(TRUE, TRUE, FALSE, FALSE, "none"),
      Edition(TRUE, FALSE, TRUE, FALSE, "dict"),
      Edition(FALSE, TRUE, FALSE, TRUE, "none"),
      EditionWithDescription,
      EditionWithKeylessWork }

\* a doc of the search API (search-result shape)
SearchDocs ==
    { [title |-> "T", key |-> "/works/OL2W", cover_i |-> "7"],
      [title |-> "T", key |-> "/works/OL2W"] }

\* a work record of the works API
Works ==
    { [title |-> "T", description |-> JStr("OL summary")],
      [title |-> "T", description |-> JObj([value |-> "OL summary"])],
      [title |-> "T"] }

GoogleThumb == <<"http://books.google.com/books/content?id=1", "zoom=1", "&edge=curl">>

\* a volumeInfo of the Google Books API
Volume(cover, desc, pages, pub) ==
    [title |-> "T"]
    @@ Field("imageLinks", [thumbnail |-> GoogleThumb], cover)
    @@ Field("description", "G summary", desc)
    @@ Field("pageCount", 336, pages)
    @@ Field("publisher", "G Pub", pub)

Volumes ==
    { Volume(TRUE, TRUE, TRUE, TRUE),
      Volume(TRUE, FALSE, TRUE, FALSE),
      Volume(FALSE, TRUE, FALSE, TRUE) }

IsbnExchanges == Failures \cup {NotFound} \cup { Ok(e) : e \in Editions }
SearchExchanges ==
    Failures \cup {Ok([numFound |-> 0, docs |-> <<>>])}
             \cup { Ok([numFound |-> 1, docs |-> <<d>>]) : d \in SearchDocs }
WorksExchanges == Failures \cup {NotFound} \cup { Ok(w) : w \in Works }
GoogleExchanges ==
    Failures \cup {Ok([totalItems |-> 0])}
             \cup { Ok([totalItems |-> 1, items |-> <<[id |-> "v1", volumeInfo |-> v]>>]) : v \in Volumes }

\* the answers of the providers: every exchange each endpoint can come to
Net == [isbn |-> IsbnExchanges, search |-> SearchExchanges,
        works |-> WorksExchanges, google |-> GoogleExchanges]

\* the answers in the batch specification: per endpoint every failure, nothing
\* found, and one full record
BatchNet ==
    [isbn |-> Failures \cup {NotFound, Ok(Edition(TRUE, TRUE, TRUE, TRUE, "str"))},
     search |-> Failures \cup {Ok([numFound |-> 0, docs |-> <<>>]),
                               Ok([numFound |-> 1,
                                   docs |-> <<[title |-> "T", key |-> "/works/OL2W", cover_i |-> "7"]>>])},
     works |-> Failures \cup {NotFound, Ok([title |-> "T", description |-> JStr("OL summary")])},
     google |-> Failures \cup {Ok([totalItems |-> 0]),
                               Ok([totalItems |-> 1,
                                   items |-> <<[id |-> "v1", volumeInfo |-> Volume(TRUE, TRUE, TRUE, TRUE)]>>])}]

\* the exchange of a call that sends no request
NoRequest == Exchange(Some("no request"), 0, None)

Endpoints == {"isbn", "search", "works", "google"}

\* the exchanges an endpoint can come to for a book: every one of S the first
\* time, and afterwards those that give the adapter fetch the result it gave
\* before (the providers answer the same request alike)
Choices(id, ep, S, fetch(_)) ==
    IF IsNone(world[id][ep]) THEN S ELSE { o \in S : fetch(o) = world[id][ep][1] }

----------------------------------------------------------------------------
(* The process: main() and enrich_book() of enrich.py *)

\* REQUEST_DELAY, in seconds
REQUEST_DELAY == 1

NoNeeds == [cover |-> FALSE, summary |-> FALSE, page_count |-> FALSE, publisher |-> FALSE]
NoOutput == [kind |-> "", enriched |-> 0, total |-> 0]
NoAnswers == [ep \in Endpoints |-> None]

\* a freshly started process over the table db with the command line a
Started(db, a) ==
    /\ store = db
    /\ args = a
    /\ pc = "main"
    /\ books = <<>>
    /\ idx = 0
    /\ enriched = 0
    /\ needs = NoNeeds
    /\ ol_data = None
    /\ ol_works_data = None
    /\ google_data = None
    /\ updated = FALSE
    /\ calls = <<>>
    /\ exchange = None
    /\ clock = 0
    /\ writes = 0
    /\ pre = <<>>
    /\ returned = FALSE
    /\ output = NoOutput
    /\ error = None
    /\ world = [i \in DOMAIN db |-> NoAnswers]
    /\ run = 1
    /\ ran = <<>>
    /\ call_times = <<>>
    /\ passes = <<>>
    /\ store0 = <<db>>

\* one book in the catalog, enriched by id (--book-id 1; no book has id 2)
Init ==
    \E r \in Rows(1), f \in BOOLEAN, d \in BOOLEAN, b \in {1, 2} :
        Started((1 :> r), [book_id |-> b, force |-> f, dry_run |-> d])

\* a catalog of up to MaxBooks books, enriched by a batch run or by id
BatchInit ==
    \E n \in 0..MaxBooks, f \in BOOLEAN, d \in BOOLEAN, b \in {0, 1} :
        \E db \in [1..n -> UNION { BatchRows(i) : i \in 1..n }] :
            /\ \A i \in 1..n : db[i].id = i
            /\ Started(db, [book_id |-> b, force |-> f, dry_run |-> d])

enrichVars == <<needs, ol_data, ol_works_data, google_data, updated, calls, writes, pre, returned>>

\* main() up to the first call of enrich_book
Main ==
    /\ pc = "main"
    /\ IF args.book_id # 0
       THEN LET book == BookDB_get(store, args.book_id) IN
            IF IsNone(book)
            THEN /\ output' = [NoOutput EXCEPT !.kind = "Book not found"]
                 /\ pc' = "done"
                 /\ UNCHANGED <<books, idx>>
            ELSE IF args.dry_run
            THEN /\ output' = [NoOutput EXCEPT !.kind = "Would enrich"]
                 /\ pc' = "done"
                 /\ UNCHANGED <<books, idx>>
            ELSE /\ books' = book
                 /\ idx' = 1
                 /\ pc' = "enrich_book"
                 /\ UNCHANGED output
       ELSE \E l \in Listings(store, IF args.force THEN BookDB_get_all(store)
                                     ELSE BookDB_get_needing_enrichment(store)) :
            IF l = <<>>
            THEN /\ output' = [NoOutput EXCEPT !.kind = "No books need enrichment"]
                 /\ pc' = "done"
                 /\ UNCHANGED <<books, idx>>
            ELSE IF args.dry_run
            THEN /\ output' = [NoOutput EXCEPT !.kind = "Would enrich", !.total = Len(l)]
                 /\ pc' = "done"
                 /\ UNCHANGED <<books, idx>>
            ELSE /\ books' = [i \in 1..Len(l) |-> store[l[i]]]
                 /\ idx' = 1
                 /\ pc' = "enrich_book"
                 /\ UNCHANGED output
    /\ enriched' = 0
    /\ UNCHANGED <<store, args, enrichVars, exchange, clock, error, world, run, ran,
                   call_times, passes, store0>>

\* enrich_book up to "Already complete, skipping"
EnrichStart ==
    /\ pc = "enrich_book"
    /\ pre' = books[idx]
    /\ calls' = <<>>
    /\ writes' = 0
    /\ updated' = FALSE
    /\ needs' = Needs(books[idx], args.force)
    /\ ol_data' = None
    /\ ol_works_data' = None
    /\ google_data' = None
    /\ IF AnyNeed(Needs(books[idx], args.force))
       THEN /\ pc' = "isbn_lookup"
            /\ passes' = Append(passes, [id |-> books[idx].id, returned |-> None])
            /\ UNCHANGED returned
       ELSE /\ pc' = "return"
            /\ passes' = Append(passes, [id |-> books[idx].id, returned |-> Some(FALSE)])
            /\ returned' = FALSE
    /\ UNCHANGED <<store, args, books, idx, enriched, exchange, clock, output, error, world,
                   run, ran, call_times, store0>>

\* how a call went that came to exchange o: which failure it was is not kept
Went(o) ==
    IF o = NoRequest THEN "no request"
    ELSE IF o \in Failures THEN "failure"
    ELSE IF o.status = 404 THEN "not found"
    ELSE "answer"

\* an adapter call that is followed by time.sleep only when it found something
CalledSleepOnData(fn, arg, o, r, next) ==
    /\ calls' = Append(calls, [fn |-> fn, arg |-> arg, at |-> clock])
    /\ call_times' = Append(call_times, clock)
    /\ exchange' = Some(Went(o))
    /\ world' = IF o = NoRequest THEN world
                ELSE [world EXCEPT ![books[idx].id][fn] = Some(r)]
    /\ clock' = IF IsNone(r.raised) /\ r.value # None THEN clock + REQUEST_DELAY ELSE clock
    /\ pc' = IF IsNone(r.raised) THEN next ELSE "crashed"
    /\ error' = IF IsNone(r.raised) THEN error ELSE r.raised

\* an adapter call fn(arg) that came to exchange o and result r, then time.sleep
Called(fn, arg, o, r, next) ==
    /\ calls' = Append(calls, [fn |-> fn, arg |-> arg, at |-> clock])
    /\ call_times' = Append(call_times, clock)
    /\ exchange' = Some(Went(o))
    /\ world' = IF o = NoRequest THEN world
                ELSE [world EXCEPT ![books[idx].id][fn] = Some(r)]
    /\ IF IsNone(r.raised)
       THEN /\ clock' = clock + REQUEST_DELAY
            /\ pc' = next
            /\ error' = error
       ELSE /\ clock' = clock
            /\ pc' = "crashed"
            /\ error' = r.raised

\* "Try OpenLibrary by ISBN"
IsbnLookup(net) ==
    /\ pc = "isbn_lookup"
    /\ LET isbn == ResolveIsbn(books[idx]) IN
       IF TruthyStr(isbn)
       THEN \E o \in Choices(books[idx].id, "isbn", net.isbn, fetch_openlibrary_by_isbn) :
                LET r == fetch_openlibrary_by_isbn(o) IN
                /\ Called("isbn", <<isbn[1]>>, o, r, "title_search")
                /\ ol_data' = r.value
       ELSE /\ pc' = "title_search"
            /\ exchange' = None
            /\ UNCHANGED <<ol_data, calls, clock, error, world, call_times>>
    /\ UNCHANGED <<store, args, books, idx, enriched, needs, ol_works_data, google_data,
                   updated, writes, pre, returned, output, run, ran, passes, store0>>

\* a search that is only made for a book without an ISBN (`if not isbn and book.title`)
TitleSearchWithoutIsbn(net) ==
    /\ pc = "title_search"
    /\ LET book == books[idx] IN
       IF ~TruthyStr(ResolveIsbn(book)) /\ book.title # ""
       THEN \E o \in Choices(book.id, "search", net.search,
                                fetch_openlibrary_by_title_author) :
                LET r == fetch_openlibrary_by_title_author(o) IN
                /\ Called("search",
                          IF TruthyStr(book.author) THEN <<book.title, book.author[1]>>
                          ELSE <<book.title>>,
                          o, r, "works_lookup")
                /\ ol_data' = r.value
       ELSE /\ pc' = "works_lookup"
            /\ exchange' = None
            /\ UNCHANGED <<ol_data, calls, clock, error, world, call_times>>
    /\ UNCHANGED <<store, args, books, idx, enriched, needs, ol_works_data, google_data,
                   updated, writes, pre, returned, output, run, ran, passes, store0>>

\* a search that is made for every book with a title, record or not (`if book.title`)
TitleSearchAlways(net) ==
    /\ pc = "title_search"
    /\ LET book == books[idx] IN
       IF book.title # ""
       THEN \E o \in Choices(book.id, "search", net.search,
                                fetch_openlibrary_by_title_author) :
                LET r == fetch_openlibrary_by_title_author(o) IN
                /\ Called("search",
                          IF TruthyStr(book.author) THEN <<book.title, book.author[1]>>
                          ELSE <<book.title>>,
                          o, r, "works_lookup")
                /\ ol_data' = r.value
       ELSE /\ pc' = "works_lookup"
            /\ exchange' = None
            /\ UNCHANGED <<ol_data, calls, clock, error, world, call_times>>
    /\ UNCHANGED <<store, args, books, idx, enriched, needs, ol_works_data, google_data,
                   updated, writes, pre, returned, output, run, ran, passes, store0>>

\* "Fallback: OpenLibrary search by title/author"
TitleSearch(net) ==
    /\ pc = "title_search"
    /\ LET book == books[idx] IN
       IF ~TruthyDict(ol_data) /\ book.title # ""
       THEN \E o \in Choices(book.id, "search", net.search,
                                fetch_openlibrary_by_title_author) :
                LET r == fetch_openlibrary_by_title_author(o) IN
                /\ Called("search",
                          IF TruthyStr(book.author) THEN <<book.title, book.author[1]>>
                          ELSE <<book.title>>,
                          o, r, "works_lookup")
                /\ ol_data' = r.value
       ELSE /\ pc' = "works_lookup"
            /\ exchange' = None
            /\ UNCHANGED <<ol_data, calls, clock, error, world, call_times>>
    /\ UNCHANGED <<store, args, books, idx, enriched, needs, ol_works_data, google_data,
                   updated, writes, pre, returned, output, run, ran, passes, store0>>

\* "If we got OpenLibrary data, fetch the works record for description"
WorksLookup(net) ==
    /\ pc = "works_lookup"
    /\ IF /\ TruthyDict(ol_data)
          /\ TruthyStr(WorksKey(ol_data[1]))
          /\ needs.summary
       THEN \E o \in Choices(books[idx].id, "works", net.works, fetch_openlibrary_works) :
                LET r == fetch_openlibrary_works(o) IN
                /\ Called("works", <<WorksKey(ol_data[1])[1]>>, o, r, "google_books")
                /\ ol_works_data' = r.value
       ELSE /\ pc' = "google_books"
            /\ exchange' = None
            /\ UNCHANGED <<ol_works_data, calls, clock, error, world, call_times>>
    /\ UNCHANGED <<store, args, books, idx, enriched, needs, ol_data, google_data,
                   updated, writes, pre, returned, output, run, ran, passes, store0>>

\* a Secondary search that is made only when the Primary gave no record
GoogleBooksAsFallback(net) ==
    /\ pc = "google_books"
    /\ LET book == books[idx]
           isbn == ResolveIsbn(book)
           query == GoogleQuery(isbn, book.title, book.author)
       IN
       IF (needs.cover \/ needs.summary) /\ ~TruthyDict(ol_data)
       THEN \E o \in IF query = <<>> THEN {NoRequest}
                     ELSE Choices(book.id, "google", net.google,
                                  LAMBDA x : fetch_google_books(isbn, book.title, book.author, x)) :
                LET r == fetch_google_books(isbn, book.title, book.author, o) IN
                /\ Called("google", query, o, r, "apply")
                /\ google_data' = r.value
       ELSE /\ pc' = "apply"
            /\ exchange' = None
            /\ UNCHANGED <<google_data, calls, clock, error, world, call_times>>
    /\ UNCHANGED <<store, args, books, idx, enriched, needs, ol_data, ol_works_data,
                   updated, writes, pre, returned, output, run, ran, passes, store0>>

\* "Try Google Books as supplement/fallback"
GoogleBooks(net) ==
    /\ pc = "google_books"
    /\ LET book == books[idx]
           isbn == ResolveIsbn(book)
           query == GoogleQuery(isbn, book.title, book.author)
       IN
       IF needs.cover \/ needs.summary
       THEN \E o \in IF query = <<>> THEN {NoRequest}
                     ELSE Choices(book.id, "google", net.google,
                                  LAMBDA x : fetch_google_books(isbn, book.title, book.author, x)) :
                LET r == fetch_google_books(isbn, book.title, book.author, o) IN
                /\ Called("google", query, o, r, "apply")
                /\ google_data' = r.value
       ELSE /\ pc' = "apply"
            /\ exchange' = None
            /\ UNCHANGED <<google_data, calls, clock, error, world, call_times>>
    /\ UNCHANGED <<store, args, books, idx, enriched, needs, ol_data, ol_works_data,
                   updated, writes, pre, returned, output, run, ran, passes, store0>>

\* "Extract and apply data" and "Store OpenLibrary key for future reference"
Apply ==
    /\ pc = "apply"
    /\ books' = [books EXCEPT ![idx] = Applied(@, needs, ol_data, ol_works_data, google_data)]
    /\ updated' = AppliedUpdated(books[idx], needs, ol_data, ol_works_data, google_data)
    /\ pc' = "save"
    /\ exchange' = None
    /\ UNCHANGED <<store, args, idx, enriched, needs, ol_data, ol_works_data, google_data,
                   calls, clock, writes, pre, returned, output, error, world, run, ran,
                   call_times, passes, store0>>

\* a pass that writes the Book back whether or not it found anything
SaveAlways ==
    /\ pc = "save"
    /\ \E committed \in BOOLEAN :
          LET r == IF committed THEN BookDB_update(store, books[idx])
                   ELSE Raises("sqlite3.OperationalError")
          IN  IF IsNone(r.raised)
              THEN /\ store' = r.value
                   /\ writes' = writes + 1
                   /\ returned' = updated
                   /\ passes' = [passes EXCEPT ![Len(passes)].returned = Some(updated)]
                   /\ pc' = "return"
                   /\ UNCHANGED error
              ELSE /\ error' = r.raised
                   /\ pc' = "crashed"
                   /\ UNCHANGED <<store, writes, returned, passes>>
    /\ UNCHANGED <<args, books, idx, enriched, needs, ol_data, ol_works_data, google_data,
                   updated, calls, exchange, clock, pre, output, world, run, ran,
                   call_times, store0>>

\* "Save if we found anything": the UPDATE commits, or sqlite3 raises
Save ==
    /\ pc = "save"
    /\ IF updated
       THEN \E committed \in BOOLEAN :
                LET r == IF committed THEN BookDB_update(store, books[idx])
                         ELSE Raises("sqlite3.OperationalError")
                IN  IF IsNone(r.raised)
                    THEN /\ store' = r.value
                         /\ writes' = writes + 1
                         /\ returned' = updated
                         /\ passes' = [passes EXCEPT ![Len(passes)].returned = Some(updated)]
                         /\ pc' = "return"
                         /\ UNCHANGED error
                    ELSE /\ error' = r.raised
                         /\ pc' = "crashed"
                         /\ UNCHANGED <<store, writes, returned, passes>>
       ELSE /\ returned' = updated
            /\ passes' = [passes EXCEPT ![Len(passes)].returned = Some(updated)]
            /\ pc' = "return"
            /\ UNCHANGED <<store, writes, error>>
    /\ UNCHANGED <<args, books, idx, enriched, needs, ol_data, ol_works_data, google_data,
                   updated, calls, exchange, clock, pre, output, world, run, ran,
                   call_times, store0>>

\* a loop that counts every book it attempted as updated
ReturnCountsAttempts ==
    /\ pc = "return"
    /\ IF args.book_id # 0
       THEN /\ pc' = "done"
            /\ UNCHANGED <<enriched, idx, output>>
       ELSE /\ enriched' = enriched + 1
            /\ IF idx < Len(books)
               THEN /\ idx' = idx + 1
                    /\ pc' = "enrich_book"
                    /\ UNCHANGED output
               ELSE /\ output' = [kind |-> "Enrichment complete",
                                  enriched |-> enriched + 1,
                                  total |-> Len(books)]
                    /\ pc' = "done"
                    /\ UNCHANGED idx
    /\ UNCHANGED <<store, args, books, enrichVars, exchange, clock, error, world, run, ran,
                   call_times, passes, store0>>

\* main() after enrich_book returned: the loop's count and the summary line
Return ==
    /\ pc = "return"
    /\ IF args.book_id # 0
       THEN /\ pc' = "done"
            /\ UNCHANGED <<enriched, idx, output>>
       ELSE /\ enriched' = IF returned THEN enriched + 1 ELSE enriched
            /\ IF idx < Len(books)
               THEN /\ idx' = idx + 1
                    /\ pc' = "enrich_book"
                    /\ UNCHANGED output
               ELSE /\ output' = [kind |-> "Enrichment complete",
                                  enriched |-> IF returned THEN enriched + 1 ELSE enriched,
                                  total |-> Len(books)]
                    /\ pc' = "done"
                    /\ UNCHANGED idx
    /\ UNCHANGED <<store, args, books, enrichVars, exchange, clock, error, world, run, ran,
                   call_times, passes, store0>>

\* the process is stopped from outside (killed, power lost) between two steps
Stop ==
    /\ pc \notin {"done", "crashed", "stopped"}
    /\ pc' = "stopped"
    /\ exchange' = None
    /\ UNCHANGED <<store, args, books, idx, enriched, enrichVars, clock, output, error,
                   world, run, ran, call_times, passes, store0>>

\* enrich.py is started again with the same command line
Rerun ==
    /\ pc \in {"done", "crashed", "stopped"}
    /\ run < MaxRuns
    /\ run' = run + 1
    /\ ran' = Append(ran, pc)
    /\ pc' = "main"
    /\ books' = <<>>
    /\ idx' = 0
    /\ enriched' = 0
    /\ needs' = NoNeeds
    /\ ol_data' = None
    /\ ol_works_data' = None
    /\ google_data' = None
    /\ updated' = FALSE
    /\ calls' = <<>>
    /\ exchange' = None
    /\ clock' = 0
    /\ writes' = 0
    /\ pre' = <<>>
    /\ returned' = FALSE
    /\ output' = NoOutput
    /\ error' = None
    /\ call_times' = <<>>
    /\ passes' = <<>>
    /\ store0' = Append(store0, store)
    /\ UNCHANGED <<store, args, world>>

\* `cli.py edit <id> --title .. --author ..` run by the user while enrich.py
\* is under way: an option that is not given ("") leaves the field as read
EditBook ==
    \E i \in DOMAIN store, given \in {<<"T2", "">>, <<"", "B">>} :
        LET book == BookDB_get(store, i)[1]
            edited == [book EXCEPT !.title = IF given[1] # "" THEN given[1] ELSE @,
                                   !.author = IF given[2] # "" THEN Some(given[2]) ELSE @]
            r == BookDB_update(store, edited)
        IN  /\ store' = r.value
            /\ UNCHANGED <<args, pc, books, idx, enriched, enrichVars, exchange, clock,
                           output, error, world, run, ran, call_times, passes, store0>>

Next ==
    \/ Main
    \/ EnrichStart
    \/ IsbnLookup(Net)
    \/ TitleSearch(Net)
    \/ WorksLookup(Net)
    \/ GoogleBooks(Net)
    \/ Apply
    \/ Save
    \/ Return
    \/ Rerun

BatchNext ==
    \/ Main
    \/ EnrichStart
    \/ IsbnLookup(BatchNet)
    \/ TitleSearch(BatchNet)
    \/ WorksLookup(BatchNet)
    \/ GoogleBooks(BatchNet)
    \/ Apply
    \/ Save
    \/ Return
    \/ Stop
    \/ Rerun

\* the steps of the process itself: everything but the user starting it again
BatchProcess ==
    \/ Main
    \/ EnrichStart
    \/ IsbnLookup(BatchNet)
    \/ TitleSearch(BatchNet)
    \/ WorksLookup(BatchNet)
    \/ GoogleBooks(BatchNet)
    \/ Apply
    \/ Save
    \/ Return

\* one book, every answer of the providers
Spec == Init /\ [][Next]_vars

\* the tables of up to MaxBooks rows, ids from 1..MaxBooks with gaps allowed
\* (BookDB.delete leaves gaps)
StoreTables ==
    UNION { { db \in [S -> UNION { BatchRows(i) : i \in S }] : \A i \in S : db[i].id = i } :
            S \in SUBSET (1..MaxBooks) }

\* the store alone, with no run of enrich.py under way
StoreInit ==
    \E db \in StoreTables : Started(db, [book_id |-> 0, force |-> FALSE, dry_run |-> FALSE])

\* some caller (edit_book, import_isbns, enrich_book) calls BookDB.update(book):
\* books holds the Book passed, store0 the table before the call, error the
\* exception raised
UpdateBook ==
    \E book \in UNION { BatchRows(i) : i \in 0..(MaxBooks + 1) } :
        LET r == BookDB_update(store, book) IN
        /\ books' = <<book>>
        /\ store0' = <<store>>
        /\ error' = r.raised
        /\ store' = IF IsNone(r.raised) THEN r.value ELSE store
        /\ UNCHANGED <<args, pc, idx, enriched, enrichVars, exchange, clock, output, world,
                       run, ran, call_times, passes>>

StoreNext == UpdateBook

\* calls of the BookDB operations on a table, one after the other
StoreSpec == StoreInit /\ [][StoreNext]_vars

\* one run of enrich.py, and the user editing books from another terminal
SharedNext == BatchProcess \/ EditBook

SharedSpec == BatchInit /\ [][SharedNext]_vars

\* a batch over several books, the coarser answers
BatchSpec == BatchInit /\ [][BatchNext]_vars

\* the same, with a process that keeps running: every request has a timeout
\* and nothing in main or enrich_book waits for anything else
FairBatchSpec == BatchSpec /\ WF_vars(BatchProcess)

----------------------------------------------------------------------------
(* Properties of enrich_book *)

\* the process is inside a pass of enrich_book over books[idx], or has just
\* left it: pre is the Book as the pass found it
InPass ==
    pc \in {"isbn_lookup", "title_search", "works_lookup", "google_books",
            "apply", "save", "return", "crashed"}

\* the blocks that assign the Book's fields have run
AfterApply == pc \in {"save", "return"}

EnrichableFields == {"cover_url", "summary", "page_count", "publisher"}

\* the field holds a value Python takes as true: not None, not 0, not empty
Filled(book, f) ==
    CASE f = "cover_url" -> TruthyUrl(book.cover_url)
      [] f = "page_count" -> TruthyInt(book.page_count)
      [] OTHER -> TruthyStr(book[f])

\* the field is the same in the Book and in the Store as before the pass
Kept(f) == books[idx][f] = pre[f] /\ store[pre.id][f] = pre[f]

\* C1 as stated: without force, an enrichable field that is not null before a
\* pass has the same value after it, in the Book and in the Store.
C1_NonNullFieldKept ==
    (InPass /\ ~args.force) =>
        \A f \in EnrichableFields : ~IsNone(pre[f]) => Kept(f)

\* C1: without force, an enrichable field that holds a non-empty value (not
\* null, not 0, not the empty string) before a pass has the same value after
\* it, in the Book and in the Store; only fields that were empty are assigned.
C1_FilledFieldKept ==
    (InPass /\ ~args.force) =>
        \A f \in EnrichableFields :
            /\ Filled(pre, f) => Kept(f)
            /\ books[idx][f] # pre[f] => ~Filled(pre, f)

\* a pass without force that wrote the Book, while the providers held another
\* publisher than the one the Book had and kept
C1_Witness ==
    /\ pc = "return" /\ ~args.force /\ writes = 1
    /\ pre.publisher = Some("Old Pub")
    /\ PublisherFound(ol_data, google_data) = Some("OL Pub")
    /\ books[idx].publisher = Some("Old Pub")
    /\ store[pre.id].publisher = Some("Old Pub")

\* C2 as stated: a book whose four enrichable fields are all not null gets,
\* without force, no adapter call, no Store write and the answer False.
C2_NonNullBookSkipped ==
    (InPass /\ ~args.force /\ \A f \in EnrichableFields : ~IsNone(pre[f])) =>
        /\ pc = "return"
        /\ calls = <<>> /\ writes = 0 /\ ~returned

\* C2: a book whose four enrichable fields all hold non-empty values gets,
\* without force, no adapter call, no Store write and the answer False.
C2_FilledBookSkipped ==
    (InPass /\ ~args.force /\ \A f \in EnrichableFields : Filled(pre, f)) =>
        /\ pc = "return"
        /\ calls = <<>> /\ writes = 0 /\ ~returned
        /\ store[pre.id] = pre /\ books[idx] = pre

\* a complete book whose pass without force has returned
C2_Witness ==
    /\ pc = "return" /\ ~args.force /\ run = 1
    /\ \A f \in EnrichableFields : Filled(pre, f)
    /\ ~IsNone(pre.isbn13)
    /\ calls = <<>>

\* what C3 says of a pass: a key that was present is kept, and a key that
\* changed was empty and is the key field of the Primary record obtained
C3_InPass ==
    InPass =>
        /\ TruthyStr(pre.openlibrary_key) =>
              /\ books[idx].openlibrary_key = pre.openlibrary_key
              /\ store[pre.id].openlibrary_key = pre.openlibrary_key
        /\ \A key \in {books[idx].openlibrary_key, store[pre.id].openlibrary_key} :
              key # pre.openlibrary_key =>
                  /\ ~TruthyStr(pre.openlibrary_key)
                  /\ TruthyDict(ol_data)
                  /\ key = Get(ol_data[1], "key")

\* what C3 says of a step: a key present in the Store stays what it is
C3_Step ==
    \A i \in DOMAIN store :
        TruthyStr(store[i].openlibrary_key) =>
            store'[i].openlibrary_key = store[i].openlibrary_key

\* C3: with or without force, once a book's openlibrary_key is present it
\* never changes; it is assigned only in a pass that obtained a Primary record
\* while the key was empty, and then takes that record's key field.
C3_KeyWriteOnce == []C3_InPass /\ [][C3_Step]_vars

\* a forced pass that wrote the Book and held a Primary record with another
\* key than the one the Book had
C3_Witness ==
    /\ pc = "return" /\ args.force /\ writes = 1
    /\ pre.openlibrary_key = Some("/books/OL9M")
    /\ TruthyDict(ol_data)
    /\ Get(ol_data[1], "key") = Some("/books/OL1M")
    /\ store[pre.id].openlibrary_key = Some("/books/OL9M")

\* the publisher the Primary record supplies, and the one the Secondary does
PrimaryPublisher(ol) ==
    IF TruthyDict(ol) /\ "publishers" \in DOMAIN ol[1] /\ ol[1].publishers # <<>>
    THEN IF ol[1].publishers[1].t = "str" THEN Some(ol[1].publishers[1].s)
         ELSE Get(ol[1].publishers[1].d, "name")
    ELSE None

SecondaryPublisher(g) == IF TruthyDict(g) THEN Get(g[1], "publisher") ELSE None

\* "Publisher: Primary record value, else Secondary value"
PublisherFused(ol, g) ==
    IF TruthyStr(PrimaryPublisher(ol)) THEN PrimaryPublisher(ol) ELSE SecondaryPublisher(g)

\* C4: when publisher is needed, the Book's publisher becomes the Primary
\* record's publisher if that record supplies one, and otherwise the Secondary
\* record's publisher if a Secondary record supplies one, whether or not a
\* Primary record is present; with neither it stays what it was.
C4_PublisherPrecedence ==
    (AfterApply /\ needs.publisher) =>
        books[idx].publisher =
            IF TruthyStr(PublisherFused(ol_data, google_data))
            THEN PublisherFused(ol_data, google_data)
            ELSE pre.publisher

\* the page count the Primary record carries, and the one the Secondary does
PrimaryPages(ol) == IF TruthyDict(ol) THEN Get(ol[1], "number_of_pages") ELSE None
SecondaryPages(g) == IF TruthyDict(g) THEN Get(g[1], "pageCount") ELSE None

\* C5: when page count is needed, the Book gets the Primary record's page
\* count whenever that record carries one, also when the Secondary's differs;
\* it gets the Secondary's only when there is no Primary record or the Primary
\* record has no page count; with neither it keeps what it had.
C5_PageCountPrecedence ==
    (AfterApply /\ needs.page_count) =>
        LET p == PrimaryPages(ol_data)
            s == SecondaryPages(google_data)
        IN  /\ TruthyInt(p) => books[idx].page_count = p
            /\ (~TruthyInt(p) /\ TruthyInt(s)) => books[idx].page_count = s
            /\ (~TruthyInt(p) /\ ~TruthyInt(s)) => books[idx].page_count = pre.page_count
            /\ books[idx].page_count = s => (~TruthyInt(p) \/ s = p \/ s = pre.page_count)

\* both records carry a page count, 320 and 336, and the written Book has 320
C5_Witness ==
    /\ pc = "return" /\ needs.page_count /\ writes = 1
    /\ PrimaryPages(ol_data) = Some(320)
    /\ SecondaryPages(google_data) = Some(336)
    /\ books[idx].page_count = Some(320)
    /\ store[pre.id].page_count = Some(320)

\* C6: when enrich_book without force has run and runs again against the same
\* answers, the second pass finds nothing to assign, writes nothing to the
\* Store and returns False; no pass writes more than once.
C6_SecondPassNoOp ==
    /\ writes <= 1
    /\ (run = 2 /\ ran[1] = "done" /\ ~args.force) =>
          /\ writes = 0
          /\ pc = "save" => ~updated
          /\ pc = "return" => ~returned
          /\ InPass => (books[idx] = pre /\ store[pre.id] = pre)

\* a second pass that asked the providers again, over a Book whose cover the
\* first pass had filled from the Primary record, and returned
C6_Witness ==
    /\ run = 2 /\ ran[1] = "done" /\ ~args.force
    /\ pc = "return" /\ calls # <<>>
    /\ pre.cover_url = Some(OPENLIBRARY_COVER_URL("42"))
    /\ TruthyDict(google_data)

\* C7: with force, enrich_book issues lookups whatever the Book holds, and
\* every enrichable field for which the sources, fused in their precedence
\* order, yield a value is overwritten with that value.
C7_ForceOverwrites ==
    (AfterApply /\ args.force) =>
        /\ calls # <<>>
        /\ TruthyUrl(CoverFound(ol_data, google_data)) =>
              books[idx].cover_url = CoverFound(ol_data, google_data)
        /\ TruthyStr(SummaryFound(ol_works_data, google_data)) =>
              books[idx].summary = SummaryFound(ol_works_data, google_data)
        /\ TruthyInt(PageCountFound(ol_data, google_data)) =>
              books[idx].page_count = PageCountFound(ol_data, google_data)
        /\ TruthyStr(PublisherFused(ol_data, google_data)) =>
              books[idx].publisher = PublisherFused(ol_data, google_data)

\* C8: no failure inside an adapter reaches enrich_book as an exception: a
\* connection error, a timeout, a status other than 200 and a body that does
\* not parse all come back as None, and the pass goes on to its next step.
\* (The first conjunct does not depend on the state and is evaluated where a
\* run starts.)
C8_AdaptersNeverRaise ==
    /\ pc = "main" =>
        \A o \in Failures :
          /\ fetch_openlibrary_by_isbn(o) = Returns(None)
          /\ fetch_openlibrary_by_title_author(o) = Returns(None)
          /\ fetch_openlibrary_works(o) = Returns(None)
          /\ fetch_google_books(Some("9780306406157"), "T", Some("A"), o) = Returns(None)
    /\ exchange = Some("failure") =>
          /\ pc \in {"title_search", "works_lookup", "google_books", "apply"}
          /\ pc \in {"title_search", "works_lookup"} => ol_data = None
          /\ pc = "google_books" => ol_works_data = None
          /\ pc = "apply" => google_data = None
    /\ IsNone(error) \/ error[1] \notin RequestException

\* the Secondary request failed after the Primary gave a record, and the pass
\* stands before the blocks that apply what it has
C8_Witness ==
    /\ exchange = Some("failure")
    /\ pc = "apply"
    /\ google_data = None
    /\ TruthyDict(ol_data)
    /\ Len(calls) >= 2

----------------------------------------------------------------------------
(* Properties of the batch run of main *)

\* the ids a batch run lists: every book with --force, else those needing enrichment
Selected ==
    IF args.force THEN BookDB_get_all(store) ELSE BookDB_get_needing_enrichment(store)

\* C9: a batch run over a list of books that is not stopped from outside
\* eventually processes each book on the list and prints the summary line,
\* books updated out of books attempted, whatever the adapter calls come to.
C9_BatchCompletes ==
    (pc = "main" /\ run = 1 /\ args.book_id = 0 /\ ~args.dry_run /\ Selected # {}) =>
        <>(\/ /\ pc = "done"
              /\ output.kind = "Enrichment complete"
              /\ output.total = Len(books)
              /\ idx = Len(books)
           \/ pc = "stopped")

\* C10: a Store write that fails for one book of a batch run does not keep the
\* books after it on the list from being processed.
C10_WriteFailureConfined ==
    ~(/\ args.book_id = 0
      /\ pc = "crashed"
      /\ error = Some("sqlite3.OperationalError")
      /\ idx < Len(books))

\* C11: every adapter call of a run, whatever it came to, is followed by one
\* full REQUEST_DELAY before the next adapter call starts, also from the last
\* call for one book to the first call for the next, so that N calls span at
\* least (N-1) * REQUEST_DELAY on the clock.
C11_DelayAfterEveryCall ==
    LET N == Len(call_times) IN
    /\ \A i \in 1..(N - 1) : call_times[i + 1] >= call_times[i] + REQUEST_DELAY
    /\ N >= 1 => call_times[N] - call_times[1] >= (N - 1) * REQUEST_DELAY
    /\ N >= 1 => clock >= call_times[N] + REQUEST_DELAY

\* the first adapter call for the second book of a batch has just failed,
\* after three or more calls for the first book of which the last found nothing
C11_Witness ==
    /\ args.book_id = 0 /\ idx = 2
    /\ Len(calls) = 1 /\ exchange = Some("failure")
    /\ Len(call_times) >= 4
    /\ world[books[1].id]["google"] = Some(Returns(None))

----------------------------------------------------------------------------
(* Properties of the order of the adapter calls *)

\* the adapters called so far in the pass, in order
Fns == [i \in 1..Len(calls) |-> calls[i].fn]

\* the ISBN lookup of the pass was made and gave nothing (404 or a failure)
IsbnGaveNothing ==
    /\ pc \in {"title_search", "works_lookup", "google_books", "apply", "save", "return", "crashed"}
    /\ calls # <<>> /\ calls[1].fn = "isbn"
    /\ world[books[idx].id]["isbn"] = Some(Returns(None))

\* what C12 says of the step after the lookup: with a title, it is the search
C12_Step ==
    (pc = "title_search" /\ exchange \in {Some("not found"), Some("failure")}
        /\ books[idx].title # "") =>
        /\ Len(calls') = Len(calls) + 1
        /\ calls'[Len(calls')].fn = "search"

\* what C12 says of the rest of the pass: without a title, no Primary call is
\* made, and the Secondary search is the one call left, made when the pass
\* needs a cover or a summary
C12_InPass ==
    (IsbnGaveNothing /\ books[idx].title = "") =>
        /\ \A i \in 2..Len(calls) : calls[i].fn = "google"
        /\ Len(calls) <= 2
        /\ ol_data = None /\ ol_works_data = None
        /\ pc \in {"apply", "save", "return"} =>
              (Len(calls) = 2 <=> (needs.cover \/ needs.summary))

\* C12: when the ISBN lookup of a book with an identifier returns nothing
\* (404) and the book has a title, the title/author search is the next call;
\* when the book has no title, no search and no works lookup is made and the
\* only call that remains is the Secondary search.
C12_FallThrough == []C12_InPass /\ [][C12_Step]_vars

\* the ISBN lookup gave nothing for a book with a title, the search was
\* called next and found a record
C12_Witness ==
    /\ IsbnGaveNothing
    /\ books[idx].title = "T"
    /\ pc = "works_lookup" /\ exchange = Some("answer")
    /\ Fns = <<"isbn", "search">>
    /\ TruthyDict(ol_data)

----------------------------------------------------------------------------
(* Properties of the Store over a run *)

\* the position on the list of the book with id i, 0 when it is not listed
Position(i) ==
    IF \E k \in 1..Len(books) : books[k].id = i
    THEN CHOOSE k \in 1..Len(books) : books[k].id = i
    ELSE 0

\* C13: at every point of a run, so wherever it is stopped, each stored row is
\* either the row the run found or the whole fused Book of its pass, never a
\* mix of the two; the rows of books not yet reached, and of books not
\* listed, are the rows the run found.
C13_RowsWholeOrUntouched ==
    LET found == store0[run] IN
    /\ DOMAIN store = DOMAIN found
    /\ \A i \in DOMAIN store :
          LET k == Position(i) IN
          /\ (k = 0 \/ k > idx \/ pc = "main") => store[i] = found[i]
          /\ (k # 0 /\ k < idx) => store[i] \in {found[i], books[k]}
          /\ (k # 0 /\ k = idx /\ pc \notin {"main", "enrich_book"}) =>
                /\ store[i] \in {found[i], books[k]}
                /\ store[i] # found[i] =>
                      store[i] = Applied(found[i], needs, ol_data, ol_works_data, google_data)
          /\ (k # 0 /\ k = idx /\ pc = "enrich_book") => store[i] = found[i]

\* a batch stopped by the failed write of its second book, after the first
\* book's fused row was saved
C13_Witness ==
    /\ args.book_id = 0 /\ pc = "crashed" /\ idx = 2
    /\ store[books[1].id] # store0[run][books[1].id]
    /\ store[books[1].id] = books[1]
    /\ books[2] # pre
    /\ store[books[2].id] = pre

\* what the adapter of endpoint ep gave for the book with this id
Answer(id, ep) == IF IsNone(world[id][ep]) THEN None ELSE world[id][ep][1].value

\* the row one whole pass of enrich_book without force makes of a row, from
\* the answers the providers gave for it
EnrichedRow(row) ==
    LET n == Needs(row, FALSE)
        isbn == ResolveIsbn(row)
        byIsbn == IF TruthyStr(isbn) THEN Answer(row.id, "isbn") ELSE None
        ol == IF ~TruthyDict(byIsbn) /\ row.title # "" THEN Answer(row.id, "search") ELSE byIsbn
        w == IF TruthyDict(ol) /\ TruthyStr(WorksKey(ol[1])) /\ n.summary
             THEN Answer(row.id, "works") ELSE None
        g == IF (n.cover \/ n.summary) /\ GoogleQuery(isbn, row.title, row.author) # <<>>
             THEN Answer(row.id, "google") ELSE None
    IN  IF AnyNeed(n) THEN Applied(row, n, ol, w, g) ELSE row

\* the Store one uninterrupted batch run without force leaves, from the table db
UninterruptedRun(db) ==
    [i \in DOMAIN db |->
        IF i \in BookDB_get_needing_enrichment(db) THEN EnrichedRow(db[i]) ELSE db[i]]

\* a batch run without force that is not a dry run
PlainBatch == args.book_id = 0 /\ ~args.force /\ ~args.dry_run

\* C14: a batch run without force that runs to its end, whether it is the
\* first run or a run started again after earlier runs were stopped or
\* crashed at any point, leaves the Store one uninterrupted run over the
\* first table leaves, the providers answering alike; and a run that follows
\* a completed run updates no book.
C14_RerunEquivalence ==
    PlainBatch =>
        /\ pc = "done" => store = UninterruptedRun(store0[1])
        /\ (run >= 2 /\ ran[run - 1] = "done") =>
              /\ store = store0[run]
              /\ writes = 0 /\ enriched = 0
              /\ \A k \in 1..Len(passes) : passes[k].returned # Some(TRUE)
              /\ pc = "done" => output.enriched = 0

\* a second run that ran to its end after the first was stopped with one
\* book saved and another not yet, and that updated a book
C14_Witness ==
    /\ PlainBatch /\ run = 2 /\ pc = "done"
    /\ ran[1] = "stopped"
    /\ output.kind = "Enrichment complete" /\ output.enriched >= 1
    /\ store0[2] # store0[1]
    /\ store # store0[2]

----------------------------------------------------------------------------
(* Properties of the fused fields *)

\* the Book of the pass had an ISBN-13 and no ISBN-10, and nothing enriched
OnlyIsbn13(book) ==
    /\ TruthyStr(book.isbn13) /\ IsNone(book.isbn)
    /\ \A f \in EnrichableFields : IsNone(book[f])

\* the Primary record of the pass is the one the ISBN lookup returned
FromIsbnLookup == TruthyDict(ol_data) /\ Fns # <<>> /\ Fns[1] = "isbn" /\ \A i \in 1..Len(Fns) : Fns[i] # "search"

\* C15 as stated: for a book with only an ISBN-13 and nothing enriched, when
\* the ISBN lookup returns a record with description {value: "X"} and cover
\* ids [42], the fused Book has summary "X", the cover template applied to 42,
\* and the record's key if it had none.
C15_DescriptionOfEdition ==
    (/\ AfterApply /\ OnlyIsbn13(pre) /\ FromIsbnLookup
     /\ Get(ol_data[1], "description") = Some(JObj([value |-> "X"]))
     /\ Get(ol_data[1], "covers") = Some(<<"42">>)) =>
        /\ books[idx].summary = Some("X")
        /\ books[idx].cover_url = Some(OPENLIBRARY_COVER_URL("42"))
        /\ IsNone(pre.openlibrary_key) => books[idx].openlibrary_key = Get(ol_data[1], "key")

\* C15: for a book with only an ISBN-13 and nothing enriched, when the ISBN
\* lookup returns a record with cover ids [42], the fused Book has the cover
\* template applied to 42 and, if it had no key, the record's key; its summary
\* is the description {value: x} of the work-details record, x, when the
\* works lookup returned one, and never the description of the ISBN record.
C15_DescriptionOfWork ==
    (/\ AfterApply /\ OnlyIsbn13(pre) /\ FromIsbnLookup
     /\ Get(ol_data[1], "covers") = Some(<<"42">>)) =>
        /\ books[idx].cover_url = Some(OPENLIBRARY_COVER_URL("42"))
        /\ (IsNone(pre.openlibrary_key) /\ "key" \in DOMAIN ol_data[1]) =>
              books[idx].openlibrary_key = Some(ol_data[1].key)
        /\ \A x \in {"OL summary", "X"} :
              (/\ TruthyDict(ol_works_data)
               /\ Get(ol_works_data[1], "description") = Some(JObj([value |-> x]))) =>
                  books[idx].summary = Some(x)
        /\ ~TruthyDict(ol_works_data) =>
              books[idx].summary = IF TruthyDict(google_data)
                                   THEN Get(google_data[1], "description") ELSE None

\* the ISBN record had cover ids [42] and a works key, the work had the
\* description {value: "OL summary"}, and the Book was written
C15_Witness ==
    /\ pc = "return" /\ writes = 1 /\ OnlyIsbn13(pre) /\ FromIsbnLookup
    /\ IsNone(pre.openlibrary_key)
    /\ Get(ol_data[1], "covers") = Some(<<"42">>)
    /\ ol_works_data = Some([title |-> "T", description |-> JObj([value |-> "OL summary"])])
    /\ store[pre.id].summary = Some("OL summary")
    /\ store[pre.id].cover_url = Some(OPENLIBRARY_COVER_URL("42"))
    /\ store[pre.id].openlibrary_key = Some("/books/OL1M")

----------------------------------------------------------------------------
(* Properties of the batch loop *)

\* the enrich_book calls of the run so far that returned True
ReturnedTrue == { k \in 1..Len(passes) : passes[k].returned = Some(TRUE) }

----------------------------------------------------------------------------
(* Properties of the Store operations *)

\* C17: BookDB.update for a Book whose id is missing or matches no stored row
\* is rejected with an error; and in every case it creates no row and changes
\* no row other than the one with that id.
C17_UpdateRequiresExistingId ==
    books # <<>> =>
        LET book == books[1]
            before == store0[1]
        IN  /\ (book.id = 0 \/ book.id \notin DOMAIN before) => ~IsNone(error)
            /\ DOMAIN store = DOMAIN before
            /\ \A i \in DOMAIN store : i # book.id => store[i] = before[i]

\* the cover the Primary record yields, the summary the Primary work-details
\* record yields, and the cover the Secondary record yields
PrimaryCover(ol) == IF TruthyDict(ol) THEN extract_cover_url(ol[1], "openlibrary") ELSE None
PrimarySummary(w) == IF TruthyDict(w) THEN extract_description(w[1], "openlibrary") ELSE None
SecondaryCover(g) == IF TruthyDict(g) THEN extract_cover_url(g[1], "google") ELSE None

\* the Secondary search was called in the pass
SecondaryCalled == \E i \in 1..Len(calls) : calls[i].fn = "google"

\* the Primary calls of the pass are over
PrimaryDone == pc \in {"apply", "save", "return"}

\* C18 as stated: the Secondary search is called exactly when, after the
\* Primary calls of the pass, a needed cover or a needed summary is not
\* supplied by the Primary records.
C18_SecondaryWhenStillNeeded ==
    PrimaryDone =>
        (SecondaryCalled <=>
            \/ needs.cover /\ ~TruthyUrl(PrimaryCover(ol_data))
            \/ needs.summary /\ ~TruthyStr(PrimarySummary(ol_works_data)))

\* C18: the Secondary search is called, once, exactly when the pass needs a
\* cover or a summary as computed at its start, whether or not the Primary
\* gave a record and whether or not the Primary records supply the cover and
\* the summary; a pass that needs only page count or publisher never calls it.
C18_SecondaryWhenNeeded ==
    /\ PrimaryDone => (SecondaryCalled <=> (needs.cover \/ needs.summary))
    /\ InPass => Cardinality({ i \in 1..Len(calls) : calls[i].fn = "google" }) <= 1
    /\ (pc = "google_books" \/ ~(needs.cover \/ needs.summary)) => ~SecondaryCalled

\* a pass that needed cover and summary, got both from the Primary records
\* and called the Secondary all the same
C18_Witness ==
    /\ pc = "return" /\ needs.cover /\ needs.summary
    /\ TruthyUrl(PrimaryCover(ol_data))
    /\ TruthyStr(PrimarySummary(ol_works_data))
    /\ SecondaryCalled
    /\ books[idx].cover_url = PrimaryCover(ol_data)
    /\ books[idx].summary = PrimarySummary(ol_works_data)

\* the pass fetched a value for a field it needed, or a key to keep
FoundSomething ==
    \/ needs.cover /\ TruthyUrl(CoverFound(ol_data, google_data))
    \/ needs.summary /\ TruthyStr(SummaryFound(ol_works_data, google_data))
    \/ needs.page_count /\ TruthyInt(PageCountFound(ol_data, google_data))
    \/ needs.publisher /\ TruthyStr(PublisherFound(ol_data, google_data))
    \/ TruthyStr(KeyFound(pre, ol_data))

\* C19 as stated: enrich_book writes the Book exactly once if a field value of
\* the Book changed during the pass and not otherwise, and returns True
\* exactly when it wrote; a pass whose fetched values all equal the values
\* held writes nothing and returns False.
C19_WriteIffChanged ==
    pc = "return" =>
        /\ writes = (IF books[idx] # pre THEN 1 ELSE 0)
        /\ returned <=> writes = 1

\* C19: enrich_book writes the whole Book exactly once if it fetched a value
\* for a field it needed (or a key to keep) and not otherwise, and returns
\* True exactly when it wrote; without force that is exactly when a field
\* value changed; a changed Book is always written.
C19_WriteIffFound ==
    pc = "return" =>
        /\ writes = (IF FoundSomething THEN 1 ELSE 0)
        /\ returned <=> writes = 1
        /\ writes = 1 => store[pre.id] = books[idx]
        /\ writes = 0 => (books[idx] = pre /\ store[pre.id] = pre)
        /\ ~args.force => (writes = 1 <=> books[idx] # pre)

\* a forced pass that fetched the values the Book already held, wrote the
\* Book and returned True
C19_Witness ==
    /\ pc = "return" /\ args.force /\ run = 2
    /\ calls # <<>> /\ FoundSomething
    /\ books[idx] = pre
    /\ writes = 1 /\ returned

\* the cover id of a Primary record: the first of its cover-id array, else
\* its singular cover id
CoverIdOf(rec) ==
    IF "covers" \in DOMAIN rec /\ rec.covers # <<>> THEN Some(rec.covers[1])
    ELSE Get(rec, "cover_i")

\* the image link of a Secondary record: large, else medium, else thumbnail
BestLinkOf(rec) ==
    LET links == IF "imageLinks" \in DOMAIN rec THEN rec.imageLinks ELSE <<>>
    IN  IF "large" \in DOMAIN links THEN Some(links.large)
        ELSE IF "medium" \in DOMAIN links THEN Some(links.medium)
        ELSE Get(links, "thumbnail")

\* the cover URLs the claim speaks of: the template applied to the cover id,
\* and the image link with its zoom raised and its edge hint removed
CoverOfPrimary(ol) ==
    IF TruthyDict(ol) /\ TruthyStr(CoverIdOf(ol[1]))
    THEN Some(<<"https://covers.openlibrary.org/b/id/", CoverIdOf(ol[1])[1], "-L.jpg">>)
    ELSE None

CoverOfSecondary(g) ==
    IF TruthyDict(g) /\ ~IsNone(BestLinkOf(g[1]))
    THEN Some(GoogleCoverFix(BestLinkOf(g[1])[1]))
    ELSE None

\* C20: when cover is needed, the Book's cover becomes the Primary record's
\* cover if that record yields one (first id of its cover-id array, else its
\* singular cover id), and otherwise the Secondary record's cover (large, else
\* medium, else thumbnail), also when a Primary record was obtained and
\* yields no cover; with neither the cover stays what it was.  (The last two
\* conjuncts do not depend on the state and are evaluated where a run starts.)
C20_CoverPrecedence ==
    /\ (AfterApply /\ needs.cover) =>
          books[idx].cover_url =
              IF TruthyUrl(CoverOfPrimary(ol_data)) THEN CoverOfPrimary(ol_data)
              ELSE IF TruthyUrl(CoverOfSecondary(google_data)) THEN CoverOfSecondary(google_data)
              ELSE pre.cover_url
    /\ pc = "main" =>
        \A present \in BOOLEAN, covers \in {<<>>, <<"42">>, <<"42", "43">>}, single \in BOOLEAN :
          LET rec == [title |-> "T"] @@ Field("covers", covers, present)
                                     @@ Field("cover_i", "7", single)
          IN  extract_cover_url(rec, "openlibrary") =
                  IF present /\ covers # <<>> THEN Some(OPENLIBRARY_COVER_URL("42"))
                  ELSE IF single THEN Some(OPENLIBRARY_COVER_URL("7"))
                  ELSE None
    /\ pc = "main" =>
        \A sizes \in SUBSET {"large", "medium", "thumbnail"} :
          LET rec == [title |-> "T",
                      imageLinks |-> [k \in sizes |-> <<k, "zoom=1", "&edge=curl">>]]
          IN  extract_cover_url(rec, "google") =
                  IF "large" \in sizes THEN Some(<<"large", "zoom=2", "">>)
                  ELSE IF "medium" \in sizes THEN Some(<<"medium", "zoom=2", "">>)
                  ELSE IF "thumbnail" \in sizes THEN Some(<<"thumbnail", "zoom=2", "">>)
                  ELSE None

\* a Primary record was obtained and yields no cover, and the written Book
\* has the cover of the Secondary record
C20_Witness ==
    /\ pc = "return" /\ needs.cover /\ writes = 1
    /\ TruthyDict(ol_data) /\ IsNone(CoverOfPrimary(ol_data))
    /\ TruthyDict(google_data)
    /\ store[pre.id].cover_url = Some(GoogleCoverFix(GoogleThumb))
    /\ pre.cover_url # store[pre.id].cover_url

----------------------------------------------------------------------------
(* Properties of the summary *)

\* the description of a work-details record as a plain string: the value of a
\* nested object, or the string itself
DescriptionOfWork(w) ==
    IF TruthyDict(w) /\ "description" \in DOMAIN w[1]
    THEN IF w[1].description.t = "dict" THEN Get(w[1].description.d, "value")
         ELSE Some(w[1].description.s)
    ELSE None

DescriptionOfVolume(g) == IF TruthyDict(g) THEN Get(g[1], "description") ELSE None

\* C21: when summary is needed, the Book's summary becomes the description of
\* the Primary work-details record if it yields one (a nested {value} object
\* or a plain string, as a string), and otherwise the Secondary record's
\* description; with neither it stays what it was.  The record of the ISBN
\* lookup or of the search has no part in it, whatever description it carries.
C21_SummaryPrecedence ==
    /\ (AfterApply /\ needs.summary) =>
          books[idx].summary =
              IF TruthyStr(DescriptionOfWork(ol_works_data)) THEN DescriptionOfWork(ol_works_data)
              ELSE IF TruthyStr(DescriptionOfVolume(google_data)) THEN DescriptionOfVolume(google_data)
              ELSE pre.summary
    /\ \A s \in {"", "OL summary"} :
          /\ extract_description([title |-> "T", description |-> JStr(s)], "openlibrary") = Some(s)
          /\ extract_description([title |-> "T", description |-> JObj([value |-> s])],
                                 "openlibrary") = Some(s)
          /\ extract_description([title |-> "T", description |-> JObj([type |-> s])],
                                 "openlibrary") = None
          /\ extract_description([title |-> "T", description |-> s], "google") = Some(s)
    /\ extract_description([title |-> "T"], "openlibrary") = None
    /\ extract_description([title |-> "T"], "google") = None

\* the ISBN lookup returned a record with a description of its own and no
\* works list, and the written summary is the one of the Secondary record
C21_Witness ==
    /\ pc = "return" /\ needs.summary /\ writes = 1
    /\ ol_data = Some(EditionWithDescription)
    /\ ol_works_data = None
    /\ store[pre.id].summary = Some("G summary")
    /\ pre.summary # Some("G summary")

----------------------------------------------------------------------------
(* Properties of the works lookup *)

\* the step that decides on the works lookup is behind the process
AfterWorksStep == pc \in {"google_books", "apply", "save", "return"}

\* the work key as C22 has it: the key of the first entry of the works list
\* when that yields one, and the record's own key otherwise
WorkKeyEitherShape(ol) ==
    LET direct == IF "works" \in DOMAIN ol /\ ol.works # <<>>
                  THEN Get(ol.works[1], "key") ELSE None
    IN  IF TruthyStr(direct) THEN direct ELSE Get(ol, "key")

\* C22: the works lookup is called exactly when a Primary record was
\* obtained, summary is needed and a work key is found, and it is called with
\* that key: the key of the first entry of the record's works list when that
\* yields a key, and the record's own key field otherwise.
C22_WorksLookupWhenKeyFound ==
    AfterWorksStep =>
        LET found == /\ TruthyDict(ol_data) /\ needs.summary
                     /\ TruthyStr(WorkKeyEitherShape(ol_data[1]))
            made == { i \in 1..Len(calls) : calls[i].fn = "works" }
        IN  /\ Cardinality(made) = IF found THEN 1 ELSE 0
            /\ \A i \in made : calls[i].arg = WorkKeyEitherShape(ol_data[1])

----------------------------------------------------------------------------
(* Properties of the write-back *)

\* the fields of a row that enrich_book never assigns and that identify no
\* book: those of them the rows of the model carry
OtherFields == {"title", "author"}

\* the step is a write-back of enrich_book that committed
WriteBack == pc = "save" /\ writes' = writes + 1

\* C23: the write-back of an enriched Book replaces only the enrichable and
\* identity fields of the stored row: every other field (title, author, ...)
\* is stored right after the write as it was stored right before it, also
\* when a CLI edit changed it after the run read the Book.
C23_WriteBackKeepsOtherFields ==
    [][WriteBack => \A f \in OtherFields :
                        store'[books[idx].id][f] = store[books[idx].id][f]]_vars

----------------------------------------------------------------------------
(* Properties of a pass that learns nothing *)

\* every adapter call the pass has made so far returned None: not found, a
\* failure, or no request at all
AllNull == \A i \in 1..Len(calls) : Answer(pre.id, calls[i].fn) = None

\* C24: if every adapter call of a pass returns null (not found or a
\* failure), enrich_book leaves every field of the Book unchanged, makes no
\* Store write and returns False, with --force and without.
C24_NothingFoundNothingDone ==
    /\ (AfterApply /\ AllNull) => (books[idx] = pre /\ ~updated /\ writes = 0)
    /\ (pc = "return" /\ AllNull) =>
          /\ returned = FALSE
          /\ passes[Len(passes)] = [id |-> pre.id, returned |-> Some(FALSE)]
          /\ store[pre.id] = pre
    /\ (InPass /\ pc = "crashed") => ~AllNull

\* a forced pass over a book with a summary made three calls, the ISBN lookup
\* failed or found nothing, the search and the Secondary search gave nothing,
\* and the pass returned False without a write
C24_Witness ==
    /\ pc = "return" /\ args.force /\ AllNull
    /\ Fns = <<"isbn", "search", "google">>
    /\ world[pre.id]["google"] = Some(Returns(None))
    /\ pre.summary = Some("old summary")
    /\ returned = FALSE /\ writes = 0 /\ store[pre.id] = pre

----------------------------------------------------------------------------
(* Properties of the identifier *)

\* the identifier of a Book as C25 has it: its 13-digit ISBN when it has
\* one, its 10-digit ISBN otherwise
Identifier(book) ==
    IF ~IsNone(book.isbn13) /\ book.isbn13[1] # "" THEN book.isbn13 ELSE book.isbn

HasIdentifier(book) == ~IsNone(Identifier(book)) /\ Identifier(book)[1] # ""

\* C25: the identifier used for the Primary ISBN lookup and for the Secondary
\* search is the Book's 13-digit ISBN when present and the 10-digit ISBN
\* otherwise; a Book with an identifier that needs anything gets the ISBN
\* lookup as its first call, and a Book with neither gets no ISBN lookup at all.
\* (The second conjunct does not depend on the state and is evaluated where a
\* run starts.)
C25_IdentifierPrecedence ==
    /\ (InPass /\ pc # "isbn_lookup" /\ AnyNeed(needs)) =>
          /\ \A i \in 1..Len(calls) :
                /\ calls[i].fn = "isbn" => calls[i].arg = <<Identifier(pre)[1]>>
                /\ (calls[i].fn = "google" /\ HasIdentifier(pre)) =>
                      calls[i].arg = <<"isbn:", Identifier(pre)[1]>>
                /\ calls[i].fn = "isbn" => i = 1
          /\ HasIdentifier(pre) <=> (calls # <<>> /\ calls[1].fn = "isbn")
    /\ pc = "main" =>
        \A i13, i10 \in {None, Some(""), Some("0306406152"), Some("9780306406157")} :
          ResolveIsbn([isbn13 |-> i13, isbn |-> i10]) =
              IF i13 \in {None, Some("")} THEN i10 ELSE i13

\* a Book with both ISBNs was looked up and searched by its 13-digit ISBN
C25_Witness ==
    /\ pc = "apply"
    /\ pre.isbn = Some("0306406152") /\ pre.isbn13 = Some("9780306406157")
    /\ calls[1] = [fn |-> "isbn", arg |-> <<"9780306406157">>, at |-> 0]
    /\ calls[Len(calls)].fn = "google"
    /\ calls[Len(calls)].arg = <<"isbn:", "9780306406157">>

----------------------------------------------------------------------------
(* Properties of the Secondary query *)

\* the Secondary search is the call the process has just made
JustSearchedSecondary == pc = "apply" /\ calls # <<>> /\ calls[Len(calls)].fn = "google"

\* C26: fetch_google_books builds one query with precedence isbn > (title
\* and author) > title alone: title and author are used only when no isbn is
\* given, title alone only when no author is given, and when none of the
\* three is given it returns None without issuing any request.  (The second
\* conjunct does not depend on the state and is evaluated where a run starts.)
C26_QueryPrecedence ==
    /\ JustSearchedSecondary =>
          LET q == calls[Len(calls)].arg IN
          /\ HasIdentifier(pre) => q = <<"isbn:", Identifier(pre)[1]>>
          /\ (~HasIdentifier(pre) /\ pre.title # "" /\ TruthyStr(pre.author)) =>
                q = <<"intitle:", pre.title, "inauthor:", pre.author[1]>>
          /\ (~HasIdentifier(pre) /\ pre.title # "" /\ ~TruthyStr(pre.author)) =>
                q = <<"intitle:", pre.title>>
          /\ (~HasIdentifier(pre) /\ pre.title = "") =>
                (q = <<>> /\ exchange = Some("no request") /\ google_data = None)
          /\ q # <<>> => exchange # Some("no request")
    /\ pc = "main" =>
        \A isbn \in {None, Some(""), Some("9780306406157")}, title \in {"", "T"},
          author \in {None, Some(""), Some("A")} :
          LET q == GoogleQuery(isbn, title, author)
              given(o) == ~IsNone(o) /\ o[1] # ""
          IN  /\ given(isbn) => q = <<"isbn:", isbn[1]>>
              /\ (~given(isbn) /\ title # "" /\ given(author)) =>
                    q = <<"intitle:", title, "inauthor:", author[1]>>
              /\ (~given(isbn) /\ title # "" /\ ~given(author)) => q = <<"intitle:", title>>
              /\ (~given(isbn) /\ title = "") =>
                    /\ q = <<>>
                    /\ \A o \in GoogleExchanges \cup {NoRequest} :
                          fetch_google_books(isbn, title, author, o) = Returns(None)

\* a Book without ISBN was searched by title and author, and a record came back
C26_Witness ==
    /\ JustSearchedSecondary
    /\ IsNone(pre.isbn) /\ IsNone(pre.isbn13)
    /\ calls[Len(calls)].arg = <<"intitle:", "T", "inauthor:", "A">>
    /\ exchange = Some("answer") /\ TruthyDict(google_data)

----------------------------------------------------------------------------
(* The duplicate remover (dedupe.py).  A title is the sequence of its       *)
(* characters, so that lower() and strip() are computed.  A row carries its *)
(* themes, which get_all(include_themes=True) reads from book_themes.       *)

\* str.lower() on the characters of the titles below
LowerChar(c) == IF c = "D" THEN "d" ELSE IF c = "E" THEN "e" ELSE c

lower(s) == [i \in 1..Len(s) |-> LowerChar(s[i])]

RECURSIVE lstrip(_)
lstrip(s) == IF s # <<>> /\ s[1] = " " THEN lstrip(Tail(s)) ELSE s

RECURSIVE rstrip(_)
rstrip(s) == IF s # <<>> /\ s[Len(s)] = " " THEN rstrip(SubSeq(s, 1, Len(s) - 1)) ELSE s

strip(s) == rstrip(lstrip(s))

\* key = b.title.lower().strip()
TitleKey(book) == strip(lower(book.title))

\* score_book(book): higher score = more metadata
score_book(book) ==
    Cardinality(book.themes) * 10
    + (IF TruthyInt(book.page_count) THEN 5 ELSE 0)
    + (IF TruthyUrl(book.cover_url) THEN 5 ELSE 0)
    + (IF TruthyStr(book.summary) THEN 3 ELSE 0)
    + (IF book.is_recommended THEN 2 ELSE 0)

\* a keeper chosen by score alone, the later copy winning a tie
KeeperLatest(copies) ==
    CHOOSE b \in copies : \A c \in copies :
        c = b \/ score_book(b) > score_book(c)
              \/ (score_book(b) = score_book(c) /\ b.id > c.id)

\* scored.sort(key=lambda x: (-x[0], x[1].id)); keeper = scored[0][1]
Keeper(copies) ==
    CHOOSE b \in copies : \A c \in copies :
        c = b \/ score_book(b) > score_book(c)
              \/ (score_book(b) = score_book(c) /\ b.id < c.id)

\* BookDB.delete(book_id)
BookDB_delete(db, book_id) == [i \in DOMAIN db \ {book_id} |-> db[i]]

\* for book_id in to_delete: BookDB.delete(book_id)
RECURSIVE DeleteEach(_, _)
DeleteEach(db, to_delete) ==
    IF to_delete = <<>> THEN db
    ELSE DeleteEach(BookDB_delete(db, to_delete[1]), Tail(to_delete))

\* the ids of a set of ids as a list, lowest first
RECURSIVE Ascending(_)
Ascending(S) ==
    IF S = {} THEN <<>>
    ELSE LET m == CHOOSE x \in S : \A y \in S : x <= y IN <<m>> \o Ascending(S \ {m})

\* the list to_delete that dedupe builds from the table
ToDelete(db) ==
    LET copies(key) == { db[i] : i \in { j \in DOMAIN db : TitleKey(db[j]) = key } }
        dupes == { key \in { TitleKey(db[i]) : i \in DOMAIN db } : Cardinality(copies(key)) > 1 }
    IN  Ascending({ b.id : b \in UNION { copies(key) \ {Keeper(copies(key))} : key \in dupes } })

Titles == { <<"D", "u">>, <<"d", "u">>, <<" ", "D", "u", " ">>, <<"E">> }

\* a row of the catalog as dedupe reads it; scores 0, 0, 5, 5, 5, 10
Copies(id) ==
    { [id |-> id, title |-> t, themes |-> m[1], page_count |-> m[2], cover_url |-> m[3],
       summary |-> m[4], is_recommended |-> m[5]] :
        t \in Titles,
        m \in { <<{}, None, None, None, FALSE>>,
                <<{}, Some(0), None, None, FALSE>>,
                <<{}, Some(100), None, None, FALSE>>,
                <<{}, None, Some(OldCover), None, FALSE>>,
                <<{}, None, None, Some("old summary"), TRUE>>,
                <<{"sf"}, None, None, None, FALSE>> } }

\* dedupe.py is started on a catalog of up to MaxCopies books, with or
\* without --execute
DedupeInit ==
    \E n \in 0..MaxCopies, d \in BOOLEAN :
        \E db \in [1..n -> UNION { Copies(i) : i \in 1..n }] :
            /\ \A i \in 1..n : db[i].id = i
            /\ Started(db, [book_id |-> 0, force |-> FALSE, dry_run |-> d])

\* dedupe(dry_run): output.total is the number of books on to_delete
Dedupe ==
    /\ pc = "main"
    /\ LET to_delete == ToDelete(store) IN
       /\ output' = [kind |-> IF args.dry_run THEN "DRY RUN" ELSE "Deleted",
                     enriched |-> 0, total |-> Len(to_delete)]
       /\ store' = IF args.dry_run THEN store ELSE DeleteEach(store, to_delete)
    /\ pc' = "done"
    /\ UNCHANGED <<args, books, idx, enriched, enrichVars, exchange, clock, error, world,
                   run, ran, call_times, passes, store0>>

DedupeNext == Dedupe

DedupeSpec == DedupeInit /\ [][DedupeNext]_vars

\* the title of the claim, lower-cased and trimmed, for each title of the model
Normalized(title) == IF title = <<"E">> THEN "e" ELSE "du"

\* C27: after dedupe has run in execute mode, exactly one book remains for
\* each normalized (lower-cased, trimmed) title that existed before, and it is
\* the copy with the highest metadata score, ties broken by lowest id; no row
\* is added or changed, and books whose title was unique are untouched.
C27_OneBestCopyPerTitle ==
    (pc = "done" /\ ~args.dry_run) =>
        LET before == store0[1]
            same(i) == { j \in DOMAIN before :
                            Normalized(before[j].title) = Normalized(before[i].title) }
            points(i) == score_book(before[i])
            best(i) == \A j \in same(i) :
                          points(i) > points(j) \/ (points(i) = points(j) /\ i <= j)
        IN  /\ DOMAIN store \subseteq DOMAIN before
            /\ \A i \in DOMAIN store : store[i] = before[i]
            /\ \A i \in DOMAIN before :
                  /\ Cardinality(same(i) \cap DOMAIN store) = 1
                  /\ i \in DOMAIN store <=> best(i)
            /\ output.total = Cardinality(DOMAIN before) - Cardinality(DOMAIN store)

\* three copies of one title written in three ways, the two best with the
\* same score: the earlier of the two is the one that remains
C27_Witness ==
    /\ pc = "done" /\ ~args.dry_run
    /\ DOMAIN store0[1] = {1, 2, 3} /\ DOMAIN store = {2}
    /\ { store0[1][i].title : i \in 1..3 } = Titles \ {<<"E">>}
    /\ score_book(store0[1][1]) = 0
    /\ score_book(store0[1][2]) = 5 /\ score_book(store0[1][3]) = 5

----------------------------------------------------------------------------
(* Adding books (cli.py add).  An ISBN is the sequence of its characters,   *)
(* so that upper(), re.sub and len() are computed; the isbn and isbn13      *)
(* columns of the rows below hold such sequences.                           *)

IsbnChars == {"0", "1", "2", "3", "4", "5", "6", "7", "8", "9", "X"}

\* str.upper() on the characters an ISBN is written with
UpperChar(c) == IF c = "x" THEN "X" ELSE c

\* re.sub(r'[^0-9X]', '', s)
RECURSIVE KeepIsbnChars(_)
KeepIsbnChars(s) ==
    IF s = <<>> THEN <<>>
    ELSE IF s[1] \in IsbnChars THEN <<s[1]>> \o KeepIsbnChars(Tail(s))
    ELSE KeepIsbnChars(Tail(s))

\* normalize_isbn(isbn): the pair (isbn10, isbn13)
normalize_isbn(isbn) ==
    LET n == KeepIsbnChars([i \in 1..Len(isbn) |-> UpperChar(isbn[i])])
    IN  IF Len(n) = 10 THEN <<Some(n), None>>
        ELSE IF Len(n) = 13 THEN <<None, Some(n)>>
        ELSE <<Some(n), Some(n)>>

\* the ids of the rows BookDB.get_by_isbn(isbn) selects its row from
BookDB_get_by_isbn(db, isbn) ==
    { i \in DOMAIN db : db[i].isbn = Some(isbn) \/ db[i].isbn13 = Some(isbn) }

\* BookDB.add(book): the table with the new row, whose id is the next rowid
BookDB_add(db, book) ==
    LET lastrowid == Cardinality(DOMAIN db) + 1
    IN  [i \in DOMAIN db \cup {lastrowid} |->
            IF i = lastrowid THEN [book EXCEPT !.id = lastrowid] ELSE db[i]]

\* the ways the user writes the --isbn option
WrittenIsbns ==
    { <<"9", "7", "8", "0", "3", "0", "6", "4", "0", "6", "1", "5", "7">>,
      <<"9", "7", "8", "-", "0", "-", "3", "0", "6", "-", "4", "0", "6", "1", "5", "-", "7">>,
      <<"0", "3", "0", "6", "4", "0", "6", "1", "5", "2">>,
      <<"0", "8", "0", "4", "4", "2", "9", "5", "7", "x">>,
      <<"1", "2", "3", "4", "5">> }

\* the catalog is empty and no command has run
AddInit == Started(<<>>, [book_id |-> 0, force |-> FALSE, dry_run |-> FALSE])

\* `cli.py add [--isbn ..] [--title ..]`: an option not given is None
add_book ==
    /\ Cardinality(DOMAIN store) < MaxAdds
    /\ \E isbn \in {None} \cup { Some(w) : w \in WrittenIsbns }, title \in {None, Some("T")} :
          LET given(o) == ~IsNone(o) /\ o[1] # <<>> IN
          IF given(isbn) /\ BookDB_get_by_isbn(store, isbn[1]) # {}
          THEN /\ output' = [kind |-> "Book already exists", enriched |-> 0, total |-> 0]
               /\ UNCHANGED store
          ELSE LET ids == IF given(isbn) THEN normalize_isbn(isbn[1]) ELSE <<None, None>>
                   book == Row(0, ids[1], ids[2], None,
                               IF ~IsNone(title) THEN title[1] ELSE "Unknown Title",
                               None, None, None, None, None)
               IN  /\ store' = BookDB_add(store, book)
                   /\ output' = [kind |-> "Added book", enriched |-> 0,
                                 total |-> Cardinality(DOMAIN store) + 1]
    /\ UNCHANGED <<args, pc, books, idx, enriched, enrichVars, exchange, clock, error, world,
                   run, ran, call_times, passes, store0>>

AddNext == add_book

AddSpec == AddInit /\ [][AddNext]_vars

\* the ISBNs a row carries
IsbnsOf(row) == {row.isbn, row.isbn13} \ {None}

\* C28: after any sequence of CLI add commands no two stored books carry the
\* same ISBN: an add whose ISBN, however written, denotes an ISBN already
\* stored on a book adds no record.
C28_NoTwoBooksWithOneIsbn ==
    \A i, j \in DOMAIN store : i # j => IsbnsOf(store[i]) \cap IsbnsOf(store[j]) = {}

----------------------------------------------------------------------------
(* Properties of what a pass may assign *)

\* provider records whose every value is empty: "", 0, an empty list
EmptyEdition ==
    [title |-> "", key |-> "", covers |-> <<>>, cover_i |-> "", number_of_pages |-> 0,
     publishers |-> <<JStr("")>>]
EmptyWorks == { [title |-> "", description |-> JStr("")],
                [title |-> "", description |-> JObj([value |-> ""])] }
EmptyVolume ==
    [title |-> "", description |-> "", pageCount |-> 0, publisher |-> "",
     imageLinks |-> [thumbnail |-> <<"", "", "">>]]

\* C29: enrich_book never clears data: with --force and without, whatever
\* the adapters answer, an enrichable field or openlibrary_key that is
\* non-empty before a pass is non-empty after it, in the Book and in the
\* Store (a field for which no new value is found keeps its old value), and
\* a field that a pass changes holds a non-empty value afterwards.  Records
\* whose values are all empty change nothing (evaluated where a run starts:
\* it does not depend on the state).
C29_NeverClears ==
    /\ AfterApply =>
          \A f \in EnrichableFields \cup {"openlibrary_key"} :
              /\ Filled(pre, f) => (Filled(books[idx], f) /\ Filled(store[pre.id], f))
              /\ books[idx][f] # pre[f] => Filled(books[idx], f)
              /\ store[pre.id][f] # pre[f] => Filled(store[pre.id], f)
    /\ pc = "main" =>
        \A book \in BatchRows(1), w \in EmptyWorks, force \in BOOLEAN :
          LET n == Needs(book, force) IN
          /\ Applied(book, n, Some(EmptyEdition), Some(w), Some(EmptyVolume)) = book
          /\ ~AppliedUpdated(book, n, Some(EmptyEdition), Some(w), Some(EmptyVolume))

\* a forced pass over a Book with a cover and a summary found a new cover
\* and no summary: the cover was replaced and the summary is the old one
C29_Witness ==
    /\ pc = "return" /\ args.force /\ writes = 1
    /\ pre.cover_url = Some(OldCover) /\ pre.summary = Some("old summary")
    /\ store[pre.id].cover_url = Some(OPENLIBRARY_COVER_URL("42"))
    /\ ~TruthyStr(DescriptionOfWork(ol_works_data))
    /\ ~TruthyStr(DescriptionOfVolume(google_data))
    /\ store[pre.id].summary = Some("old summary")

----------------------------------------------------------------------------
(* Properties of the shape of a pass *)

\* the place of an adapter in the fixed order of a pass
Rank(fn) == CASE fn = "isbn" -> 1 [] fn = "search" -> 2 [] fn = "works" -> 3 [] fn = "google" -> 4

\* the ISBN lookup of the pass returned a record
IsbnGaveRecord ==
    calls # <<>> /\ calls[1].fn = "isbn" /\ Answer(pre.id, "isbn") # None

\* what C30 says of every state of a pass
C30_InPass ==
    InPass =>
        /\ Len(calls) <= 4
        /\ \A i, j \in 1..Len(calls) : i < j => Rank(calls[i].fn) < Rank(calls[j].fn)
        /\ IsbnGaveRecord => \A i \in 1..Len(calls) : calls[i].fn # "search"
        /\ writes <= 1
        /\ writes = 1 => pc = "return"

\* what C30 says of every step: a call is made before any write of the pass,
\* and a write is made by the step after the blocks, with no call in it
C30_Step ==
    /\ (InPass /\ Len(calls') > Len(calls)) => (writes = 0 /\ writes' = 0)
    /\ writes' > writes => (pc = "save" /\ calls' = calls /\ pc' = "return")

\* C30: one enrich_book pass makes at most four adapter calls, each at most
\* once and in the fixed order ISBN lookup, title/author search, works
\* lookup, Secondary search; the title/author search is never called after an
\* ISBN lookup that returned a record; and the pass makes at most one Store
\* write, which happens only after all its adapter calls have returned.
C30_PassShape == []C30_InPass /\ [][C30_Step]_vars

\* a pass made all four calls, the ISBN lookup finding nothing and the search
\* a record, and wrote once
C30_Witness ==
    /\ pc = "return" /\ writes = 1
    /\ Fns = <<"isbn", "search", "works", "google">>
    /\ Answer(pre.id, "isbn") = None /\ TruthyDict(ol_data) /\ TruthyDict(ol_works_data)

====
